---------------------------- MODULE Spec2Model ----------------------------
(***************************************************************************)
(* Model of the crash-report pipeline of src/main.py:                      *)
(*   fetch_crash_data -> extract_vehicle_makes -> get_top_vehicle_brands   *)
(*   -> to_csv / plot_top_brands, orchestrated by main.                    *)
(*                                                                         *)
(* A Python string is a sequence of one-character strings, so that upper() *)
(* and strip() are computed character by character.  A JSON value is a     *)
(* record [t, s, n, items] with a type tag t.                              *)
(***************************************************************************)
EXTENDS Integers, Sequences, FiniteSets, TLC

VARIABLES
    pc,           \* position of the running call
    entry,        \* the function that was called: "main", "fetch", "extract", "top"
    NHTSA_API_KEY,\* the module-level access key
    state,        \* the region argument of fetch_crash_data
    requests,     \* number of network requests issued
    params,       \* the query parameters of the request
    response,     \* the outcome of the network request
    crash_data,   \* the value fetch_crash_data returned / the extractor's argument
    make_series,  \* the extractor's result / the aggregator's argument
    top_n,        \* the aggregator's limit
    top_brands,   \* the aggregator's result
    returned,     \* the stages that have returned a result
    raised,       \* an exception has propagated out of the entry point
    fileWritten,  \* top_vehicle_brands.csv has been written
    chartShown,   \* the bar chart has been rendered
    diag          \* the diagnostic main printed before returning early

vars == <<pc, entry, NHTSA_API_KEY, state, requests, params, response, crash_data,
          make_series, top_n, top_brands, returned, raised, fileWritten, chartShown,
          diag>>

-----------------------------------------------------------------------------
(* Bounds of the model *)

MaxRegionLen == 4    \* longest enumerated region string
MaxMakeLen == 2      \* longest enumerated vehicleMake string
MaxRecords == 2      \* longest enumerated record list
MaxMakes == 4        \* longest enumerated make sequence given to the aggregator
MaxLimit == 3        \* largest enumerated limit
MaxNegLimit == 2     \* most negative enumerated limit is -MaxNegLimit

Min(a, b) == IF a <= b THEN a ELSE b
Max(a, b) == IF a >= b THEN a ELSE b

SeqsUpTo(S, n) == UNION {[1..k -> S] : k \in 0..n}

Range(s) == {s[i] : i \in 1..Len(s)}

-----------------------------------------------------------------------------
(* Python strings *)

LowerLetters ==
    <<"a","b","c","d","e","f","g","h","i","j","k","l","m",
      "n","o","p","q","r","s","t","u","v","w","x","y","z">>
UpperLetters ==
    <<"A","B","C","D","E","F","G","H","I","J","K","L","M",
      "N","O","P","Q","R","S","T","U","V","W","X","Y","Z">>

\* str.upper() on one character
UpperChar(c) ==
    IF \E i \in 1..26 : LowerLetters[i] = c
    THEN UpperLetters[CHOOSE i \in 1..26 : LowerLetters[i] = c]
    ELSE c

\* str.upper()
Upper(s) == [i \in 1..Len(s) |-> UpperChar(s[i])]

Whitespace == {" ", "\t", "\n"}

\* str.strip(): drops the leading and the trailing whitespace
Strip(s) ==
    LET keep == {i \in 1..Len(s) : s[i] \notin Whitespace}
    IN  IF keep = {} THEN <<>>
        ELSE LET lo == CHOOSE i \in keep : \A j \in keep : i <= j
                 hi == CHOOSE i \in keep : \A j \in keep : j <= i
             IN  SubSeq(s, lo, hi)

Digits == <<"0","1","2","3","4","5","6","7","8","9">>

RECURSIVE NatStr(_)
\* str() of a non-negative integer
NatStr(k) == IF k < 10 THEN <<Digits[k + 1]>> ELSE NatStr(k \div 10) \o <<Digits[(k % 10) + 1]>>

-----------------------------------------------------------------------------
(* JSON values as Python objects *)

JNull == [t |-> "null", s |-> <<>>, n |-> 0, items |-> <<>>]
JStr(x) == [t |-> "str", s |-> x, n |-> 0, items |-> <<>>]
JNum(k) == [t |-> "num", s |-> <<>>, n |-> k, items |-> <<>>]
JBool(b) == [t |-> "bool", s |-> <<>>, n |-> IF b THEN 1 ELSE 0, items |-> <<>>]
JList(xs) == [t |-> "list", s |-> <<>>, n |-> 0, items |-> xs]
\* A dict, by the one key the code reads from it: items = <<value>> when the
\* key is present, n = the number of its other keys.
JObj(has, v, others) ==
    [t |-> "obj", s |-> <<>>, n |-> others, items |-> IF has THEN <<v>> ELSE <<>>]

EmptyList == JList(<<>>)

\* Python truth value, as tested by `if x` / `not x`
Truthy(j) ==
    CASE j.t = "null" -> FALSE
      [] j.t = "bool" -> j.n = 1
      [] j.t = "num"  -> j.n # 0
      [] j.t = "str"  -> j.s # <<>>
      [] j.t = "list" -> j.items # <<>>
      [] j.t = "obj"  -> j.items # <<>> \/ j.n > 0

\* str(x) for a scalar; an empty container prints as its brackets
Str(j) ==
    CASE j.t = "null" -> <<"N","o","n","e">>
      [] j.t = "bool" -> IF j.n = 1 THEN <<"T","r","u","e">> ELSE <<"F","a","l","s","e">>
      [] j.t = "num"  -> NatStr(j.n)
      [] j.t = "str"  -> j.s
      [] j.t = "list" -> <<"[","]">>
      [] j.t = "obj"  -> <<"{","}">>

\* len(x) is defined (no TypeError)
HasLen(j) == j.t \in {"list", "str", "obj"}

\* dict.get(key) on a dict modelled by JObj: None when the key is missing
DictGet(j) == IF j.items # <<>> THEN j.items[1] ELSE JNull

\* dict.get(key, default)
DictGetDefault(j, default) == IF j.items # <<>> THEN j.items[1] ELSE default

\* The elements a for loop over x visits: a list's elements, a string's
\* characters, a dict's keys (JSON keys are strings).
Iter(j) ==
    CASE j.t = "list" -> j.items
      [] j.t = "str"  -> [i \in 1..Len(j.s) |-> JStr(<<j.s[i]>>)]
      [] j.t = "obj"  -> [i \in 1..(Len(j.items) + j.n) |-> JStr(<<"k">>)]
      [] OTHER        -> <<>>

-----------------------------------------------------------------------------
(* Configuration *)

PLACEHOLDER_KEY == "YOUR_NHTSA_API_KEY"
ApiKeys == {PLACEHOLDER_KEY, "real-key"}

STATE_CODE_MAP ==
    <<
       <<<<"A","L","A","B","A","M","A">>, <<"A","L">>>>,
       <<<<"A","L","A","S","K","A">>, <<"A","K">>>>,
       <<<<"A","R","I","Z","O","N","A">>, <<"A","Z">>>>,
       <<<<"A","R","K","A","N","S","A","S">>, <<"A","R">>>>,
       <<<<"C","A","L","I","F","O","R","N","I","A">>, <<"C","A">>>>,
       <<<<"C","O","L","O","R","A","D","O">>, <<"C","O">>>>,
       <<<<"C","O","N","N","E","C","T","I","C","U","T">>, <<"C","T">>>>,
       <<<<"D","E","L","A","W","A","R","E">>, <<"D","E">>>>,
       <<<<"F","L","O","R","I","D","A">>, <<"F","L">>>>,
       <<<<"G","E","O","R","G","I","A">>, <<"G","A">>>>,
       <<<<"H","A","W","A","I","I">>, <<"H","I">>>>,
       <<<<"I","D","A","H","O">>, <<"I","D">>>>,
       <<<<"I","L","L","I","N","O","I","S">>, <<"I","L">>>>,
       <<<<"I","N","D","I","A","N","A">>, <<"I","N">>>>,
       <<<<"I","O","W","A">>, <<"I","A">>>>,
       <<<<"K","A","N","S","A","S">>, <<"K","S">>>>,
       <<<<"K","E","N","T","U","C","K","Y">>, <<"K","Y">>>>,
       <<<<"L","O","U","I","S","I","A","N","A">>, <<"L","A">>>>,
       <<<<"M","A","I","N","E">>, <<"M","E">>>>,
       <<<<"M","A","R","Y","L","A","N","D">>, <<"M","D">>>>,
       <<<<"M","A","S","S","A","C","H","U","S","E","T","T","S">>, <<"M","A">>>>,
       <<<<"M","I","C","H","I","G","A","N">>, <<"M","I">>>>,
       <<<<"M","I","N","N","E","S","O","T","A">>, <<"M","N">>>>,
       <<<<"M","I","S","S","I","S","S","I","P","P","I">>, <<"M","S">>>>,
       <<<<"M","I","S","S","O","U","R","I">>, <<"M","O">>>>,
       <<<<"M","O","N","T","A","N","A">>, <<"M","T">>>>,
       <<<<"N","E","B","R","A","S","K","A">>, <<"N","E">>>>,
       <<<<"N","E","V","A","D","A">>, <<"N","V">>>>,
       <<<<"N","E","W"," ","H","A","M","P","S","H","I","R","E">>, <<"N","H">>>>,
       <<<<"N","E","W"," ","J","E","R","S","E","Y">>, <<"N","J">>>>,
       <<<<"N","E","W"," ","M","E","X","I","C","O">>, <<"N","M">>>>,
       <<<<"N","E","W"," ","Y","O","R","K">>, <<"N","Y">>>>,
       <<<<"N","O","R","T","H"," ","C","A","R","O","L","I","N","A">>, <<"N","C">>>>,
       <<<<"N","O","R","T","H"," ","D","A","K","O","T","A">>, <<"N","D">>>>,
       <<<<"O","H","I","O">>, <<"O","H">>>>,
       <<<<"O","K","L","A","H","O","M","A">>, <<"O","K">>>>,
       <<<<"O","R","E","G","O","N">>, <<"O","R">>>>,
       <<<<"P","E","N","N","S","Y","L","V","A","N","I","A">>, <<"P","A">>>>,
       <<<<"R","H","O","D","E"," ","I","S","L","A","N","D">>, <<"R","I">>>>,
       <<<<"S","O","U","T","H"," ","C","A","R","O","L","I","N","A">>, <<"S","C">>>>,
       <<<<"S","O","U","T","H"," ","D","A","K","O","T","A">>, <<"S","D">>>>,
       <<<<"T","E","N","N","E","S","S","E","E">>, <<"T","N">>>>,
       <<<<"T","E","X","A","S">>, <<"T","X">>>>,
       <<<<"U","T","A","H">>, <<"U","T">>>>,
       <<<<"V","E","R","M","O","N","T">>, <<"V","T">>>>,
       <<<<"V","I","R","G","I","N","I","A">>, <<"V","A">>>>,
       <<<<"W","A","S","H","I","N","G","T","O","N">>, <<"W","A">>>>,
       <<<<"W","E","S","T"," ","V","I","R","G","I","N","I","A">>, <<"W","V">>>>,
       <<<<"W","I","S","C","O","N","S","I","N">>, <<"W","I">>>>,
       <<<<"W","Y","O","M","I","N","G">>, <<"W","Y">>>>,
       <<<<"D","I","S","T","R","I","C","T"," ","O","F"," ","C","O","L","U","M","B","I","A">>, <<"D","C">>>>
    >>

\* STATE_CODE_MAP.get(k, default)
StateCodeGet(k, default) ==
    IF \E i \in 1..Len(STATE_CODE_MAP) : STATE_CODE_MAP[i][1] = k
    THEN STATE_CODE_MAP[CHOOSE i \in 1..Len(STATE_CODE_MAP) : STATE_CODE_MAP[i][1] = k][2]
    ELSE default

-----------------------------------------------------------------------------
(* fetch_crash_data *)

\* The optional region argument: None, or a string
NoState == [given |-> FALSE, s |-> <<>>]
SomeState(x) == [given |-> TRUE, s |-> x]

\* `if state:` - None and "" are both false
StateTruthy(st) == st.given /\ st.s # <<>>

RegionAlphabet == {"o", "h", "i", "O"}
RegionSamples ==
    { <<"Z","Z">>, <<"z","z">>, <<"M","I">>, <<"m","i">>,
      <<"m","i","c","h","i","g","a","n">>,
      <<"C","a","l","i","f","o","r","n","i","a">>,
      <<"n","e","w"," ","y","o","r","k">>,
      <<"O","H","I","O">>, <<"o","h","i","o"," ">> }
Regions ==
    {NoState} \cup {SomeState(x) : x \in SeqsUpTo(RegionAlphabet, MaxRegionLen) \cup RegionSamples}

DEFAULT_YEAR == 2023

NoParams == [format |-> "", year |-> 0, API_KEY |-> "", hasState |-> FALSE, state |-> <<>>]

\* line 42: the key is still the placeholder
ApiKeyUnset(key) == key = PLACEHOLDER_KEY

\* ResolveRegion looking up the name as given
ResolveRegionNoUpper(x) == StateCodeGet(x, Upper(x))

\* lines 60-61: state_upper = state.upper(); STATE_CODE_MAP.get(state_upper, state_upper)
ResolveRegion(x) == StateCodeGet(Upper(x), Upper(x))

\* lines 52-62: the query parameters
BuildParams(key, year, st) ==
    [format |-> "json", year |-> year, API_KEY |-> key,
     hasState |-> StateTruthy(st),
     state |-> IF StateTruthy(st) THEN ResolveRegion(st.s) ELSE <<>>]

\* What requests.get / raise_for_status / response.json can do
NoResponse == [kind |-> "none", body |-> JNull]
NetworkError == [kind |-> "network_error", body |-> JNull]
HttpError == [kind |-> "http_error", body |-> JNull]
BadJson == [kind |-> "bad_json", body |-> JNull]
OkResponse(b) == [kind |-> "ok", body |-> b]

\* lines 74-84: the value returned for a parsed body, and whether an exception
\* was raised on the way (it is caught at line 92)
ParseBody(data) ==
    IF data.t # "obj"
    THEN [caught |-> TRUE, ret |-> EmptyList]             \* data.get: AttributeError
    ELSE LET results == DictGetDefault(data, EmptyList)
         IN  IF Truthy(results) /\ results.t = "list" /\ Len(results.items) > 0
             THEN LET crash_records == results.items[1]
                  IN  IF HasLen(crash_records)
                      THEN [caught |-> FALSE, ret |-> crash_records]
                      ELSE [caught |-> TRUE, ret |-> EmptyList]   \* len(): TypeError
             ELSE [caught |-> FALSE, ret |-> EmptyList]

\* lines 68-94: the value fetch_crash_data returns for a response
HandleResponse(resp) ==
    IF resp.kind = "ok" THEN ParseBody(resp.body).ret ELSE EmptyList

-----------------------------------------------------------------------------
(* Inputs: vehicleMake values, records, record lists, response bodies *)

MakeAlphabet == {"F", "f", " "}
MakeStrings == SeqsUpTo(MakeAlphabet, MaxMakeLen)

Ford == <<"F","o","r","d">>
ford == <<"f","o","r","d">>
GM == <<"G","M">>

\* values the vehicleMake key can hold
MakeValues ==
    {JStr(x) : x \in MakeStrings} \cup
    {JNull, JNum(0), JNum(7), JBool(TRUE), JBool(FALSE), EmptyList}

Rec(v) == JObj(TRUE, v, 0)
RecNoMake == JObj(FALSE, JNull, 1)      \* a record without the vehicleMake key
RecEmpty == JObj(FALSE, JNull, 0)       \* {}

Records == {Rec(v) : v \in MakeValues} \cup {RecNoMake, RecEmpty}

\* the record list of the specification's end-to-end scenario
ScenarioRecords ==
    <<Rec(JStr(Ford)), Rec(JStr(ford)), Rec(JStr(<<>>)), RecEmpty, Rec(JStr(GM))>>

RecordLists == SeqsUpTo(Records, MaxRecords) \cup {ScenarioRecords}

\* elements of the lists a response body can carry: records and non-records
BodyElements ==
    { Rec(JStr(<<"F">>)), Rec(JStr(<<"f">>)), Rec(JStr(<<" ">>)), Rec(JNum(0)),
      RecNoMake, JStr(<<"F">>), JNum(7) }

BodyLists == SeqsUpTo(BodyElements, MaxRecords) \cup {ScenarioRecords}

\* first elements of the Results list
FirstElements ==
    {JList(l) : l \in BodyLists} \cup
    { JNull, JNum(7), JBool(TRUE), JStr(<<>>), JStr(<<"F","f">>),
      JObj(FALSE, JNull, 0), JObj(FALSE, JNull, 1) }

\* values of the Results key
ResultsValues ==
    {JList(<<f>>) : f \in FirstElements} \cup
    {JList(<<f, JNull>>) : f \in {JList(<<Rec(JStr(<<"F">>))>>), JNum(7)}} \cup
    { EmptyList, JNull, JNum(7), JStr(<<"F">>), JObj(FALSE, JNull, 1) }

\* JSON bodies of a successful response
Bodies ==
    {JObj(TRUE, r, 0) : r \in ResultsValues} \cup
    { JObj(FALSE, JNull, 0), JObj(FALSE, JNull, 1),
      JNull, JNum(7), JStr(<<"F">>), EmptyList, JList(<<Rec(JStr(<<"F">>))>>) }

Responses == {NetworkError, HttpError, BadJson} \cup {OkResponse(b) : b \in Bodies}

-----------------------------------------------------------------------------
(* extract_vehicle_makes *)

RECURSIVE ExtractLoop(_, _, _)
\* lines 111-121: the loop over the elements, from element i on
ExtractLoop(elems, i, makes) ==
    IF i > Len(elems) THEN [raised |-> FALSE, makes |-> makes]
    ELSE LET crash == elems[i]
         IN  IF crash.t # "obj"
             THEN [raised |-> TRUE, makes |-> <<>>]        \* crash.get: AttributeError
             ELSE LET vehicle_make == DictGet(crash)
                  IN  IF Truthy(vehicle_make)
                      THEN ExtractLoop(elems, i + 1, Append(makes, Strip(Str(vehicle_make))))
                      ELSE ExtractLoop(elems, i + 1, makes)

\* lines 100-125
ExtractVehicleMakes(data) ==
    IF ~Truthy(data) THEN [raised |-> FALSE, makes |-> <<>>]
    ELSE ExtractLoop(Iter(data), 1, <<>>)

-----------------------------------------------------------------------------
(* get_top_vehicle_brands *)

\* `s is None` in place of s.empty: never true of a Series
SeriesEmptyIsNone(s) == FALSE

\* Series.empty
SeriesEmpty(s) == Len(s) = 0

\* CountOf without regard to letter case
CountOfIgnoreCase(makes, m) == Cardinality({i \in 1..Len(makes) : Upper(makes[i]) = Upper(m)})

\* the number of occurrences of m, by exact equality
CountOf(makes, m) == Cardinality({i \in 1..Len(makes) : makes[i] = m})

\* the orderings of a finite set
Orderings(S) ==
    {p \in [1..Cardinality(S) -> S] : \A i, j \in 1..Cardinality(S) : i # j => p[i] # p[j]}

\* Series.value_counts(): one row per distinct value, sorted by count,
\* largest first.  The sort is sort_values' default quicksort, which is not
\* stable: rows of equal count come in any order.
ValueCounts(makes) ==
    { [i \in 1..Len(p) |-> [make |-> p[i], count |-> CountOf(makes, p[i])]] :
        p \in { q \in Orderings(Range(makes)) :
                  \A i, j \in 1..Len(q) :
                      i < j => CountOf(makes, q[i]) >= CountOf(makes, q[j]) } }

\* s[n:] in place of s.head(n)
SeriesHeadFromN(s, n) == SubSeq(s, Max(n, 0) + 1, Len(s))

\* Series.head(n): the first n rows; for n < 0, all rows but the last -n
SeriesHead(s, n) ==
    IF n >= 0 THEN SubSeq(s, 1, Min(n, Len(s)))
    ELSE SubSeq(s, 1, Max(0, Len(s) + n))

\* lines 131-138: the results get_top_vehicle_brands can return
TopBrandsOutcomes(makes, n) ==
    IF SeriesEmpty(makes) THEN {<<>>}
    ELSE {SeriesHead(vc, n) : vc \in ValueCounts(makes)}

DEFAULT_TOP_N == 10

TopMakes == {Ford, ford, GM}
MakeSeqs == SeqsUpTo(TopMakes, MaxMakes)
Limits == (0 - MaxNegLimit)..MaxLimit

-----------------------------------------------------------------------------
(* Initial states: one per entry point *)

Blank ==
    /\ requests = 0
    /\ params = NoParams
    /\ response = NoResponse
    /\ top_brands = <<>>
    /\ returned = {}
    /\ raised = FALSE
    /\ fileWritten = FALSE
    /\ chartShown = FALSE
    /\ diag = "none"

\* main(): lines 167-179, up to the call fetch_crash_data(year=2023, state="MI")
Init ==
    /\ Blank
    /\ entry = "main"
    /\ pc = "fetch"
    /\ NHTSA_API_KEY \in ApiKeys
    /\ state = SomeState(<<"M","I">>)
    /\ crash_data = JNull
    /\ make_series = <<>>
    /\ top_n = DEFAULT_TOP_N

\* a call fetch_crash_data(state=...)
InitFetch ==
    /\ Blank
    /\ entry = "fetch"
    /\ pc = "fetch"
    /\ NHTSA_API_KEY \in ApiKeys
    /\ state \in Regions
    /\ crash_data = JNull
    /\ make_series = <<>>
    /\ top_n = DEFAULT_TOP_N

\* a call extract_vehicle_makes(crash_data) on a list of records
InitExtract ==
    /\ Blank
    /\ entry = "extract"
    /\ pc = "extract"
    /\ NHTSA_API_KEY = PLACEHOLDER_KEY
    /\ state = NoState
    /\ crash_data \in {JList(l) : l \in RecordLists}
    /\ make_series = <<>>
    /\ top_n = DEFAULT_TOP_N

\* a call get_top_vehicle_brands(make_series, top_n)
InitTop ==
    /\ Blank
    /\ entry = "top"
    /\ pc = "rank"
    /\ NHTSA_API_KEY = PLACEHOLDER_KEY
    /\ state = NoState
    /\ crash_data = JNull
    /\ make_series \in MakeSeqs
    /\ top_n \in Limits

-----------------------------------------------------------------------------
(* fetch_crash_data, in three steps around its one blocking call *)

\* lines 42-66: the key check, the query parameters
FetchBegin ==
    /\ pc = "fetch"
    /\ IF ApiKeyUnset(NHTSA_API_KEY)
       THEN /\ crash_data' = EmptyList
            /\ returned' = returned \cup {"fetch"}
            /\ pc' = "fetched"
            /\ UNCHANGED params
       ELSE /\ params' = BuildParams(NHTSA_API_KEY, DEFAULT_YEAR, state)
            /\ pc' = "request"
            /\ UNCHANGED <<crash_data, returned>>
    /\ UNCHANGED <<entry, NHTSA_API_KEY, state, requests, response, make_series, top_n,
                   top_brands, raised, fileWritten, chartShown, diag>>

\* line 68: requests.get(base_url, params=params)
FetchRequest ==
    /\ pc = "request"
    /\ requests' = requests + 1
    /\ \E r \in Responses : response' = r
    /\ pc' = "response"
    /\ UNCHANGED <<entry, NHTSA_API_KEY, state, params, crash_data, make_series, top_n,
                   top_brands, returned, raised, fileWritten, chartShown, diag>>

\* FetchHandle with a retry: a failed request is issued again
FetchHandleRetry ==
    /\ pc = "response"
    /\ IF response.kind \in {"network_error", "http_error"}
       THEN pc' = "request" /\ UNCHANGED <<crash_data, returned>>
       ELSE /\ crash_data' = HandleResponse(response)
            /\ returned' = returned \cup {"fetch"}
            /\ pc' = "fetched"
    /\ UNCHANGED <<entry, NHTSA_API_KEY, state, requests, params, response, make_series,
                   top_n, top_brands, raised, fileWritten, chartShown, diag>>

\* lines 69-94: the status check, the parse, the except clauses
FetchHandle ==
    /\ pc = "response"
    /\ crash_data' = HandleResponse(response)
    /\ returned' = returned \cup {"fetch"}
    /\ pc' = "fetched"
    /\ UNCHANGED <<entry, NHTSA_API_KEY, state, requests, params, response, make_series,
                   top_n, top_brands, raised, fileWritten, chartShown, diag>>

-----------------------------------------------------------------------------
(* main *)

\* lines 180-182
MainCheckData ==
    /\ entry = "main"
    /\ pc = "fetched"
    /\ IF ~Truthy(crash_data)
       THEN pc' = "done" /\ diag' = "no_data"
       ELSE pc' = "extract" /\ UNCHANGED diag
    /\ UNCHANGED <<entry, NHTSA_API_KEY, state, requests, params, response, crash_data,
                   make_series, top_n, top_brands, returned, raised, fileWritten,
                   chartShown>>

\* lines 184-187: the call of extract_vehicle_makes and the check of its result
MainExtract ==
    /\ entry = "main"
    /\ pc = "extract"
    /\ LET r == ExtractVehicleMakes(crash_data)
       IN  IF r.raised
           THEN /\ raised' = TRUE
                /\ pc' = "done"
                /\ UNCHANGED <<make_series, returned, diag>>
           ELSE /\ make_series' = r.makes
                /\ returned' = returned \cup {"extract"}
                /\ raised' = FALSE
                /\ IF SeriesEmpty(r.makes)
                   THEN pc' = "done" /\ diag' = "no_makes"
                   ELSE pc' = "rank" /\ UNCHANGED diag
    /\ UNCHANGED <<entry, NHTSA_API_KEY, state, requests, params, response, crash_data,
                   top_n, top_brands, fileWritten, chartShown>>

\* lines 189-191 and 200-201: the call of get_top_vehicle_brands and the branch
MainRank ==
    /\ entry = "main"
    /\ pc = "rank"
    /\ \E t \in TopBrandsOutcomes(make_series, top_n) :
          /\ top_brands' = t
          /\ IF ~SeriesEmpty(t)
             THEN pc' = "report" /\ UNCHANGED diag
             ELSE pc' = "done" /\ diag' = "no_top_brands"
    /\ returned' = returned \cup {"rank"}
    /\ UNCHANGED <<entry, NHTSA_API_KEY, state, requests, params, response, crash_data,
                   make_series, top_n, raised, fileWritten, chartShown>>

\* lines 192-197: top_brands.to_csv(csv_path)
MainReport ==
    /\ entry = "main"
    /\ pc = "report"
    /\ fileWritten' = TRUE
    /\ pc' = "plot"
    /\ UNCHANGED <<entry, NHTSA_API_KEY, state, requests, params, response, crash_data,
                   make_series, top_n, top_brands, returned, raised, chartShown, diag>>

\* line 199 and lines 144-161: plot_top_brands(top_brands)
MainPlot ==
    /\ entry = "main"
    /\ pc = "plot"
    /\ chartShown' = ~SeriesEmpty(top_brands)
    /\ pc' = "done"
    /\ UNCHANGED <<entry, NHTSA_API_KEY, state, requests, params, response, crash_data,
                   make_series, top_n, top_brands, returned, raised, fileWritten, diag>>

-----------------------------------------------------------------------------
(* direct calls of the extractor and of the aggregator *)

ExtractCall ==
    /\ entry = "extract"
    /\ pc = "extract"
    /\ LET r == ExtractVehicleMakes(crash_data)
       IN  /\ raised' = r.raised
           /\ make_series' = r.makes
           /\ returned' = IF r.raised THEN returned ELSE returned \cup {"extract"}
    /\ pc' = "done"
    /\ UNCHANGED <<entry, NHTSA_API_KEY, state, requests, params, response, crash_data,
                   top_n, top_brands, fileWritten, chartShown, diag>>

TopCall ==
    /\ entry = "top"
    /\ pc = "rank"
    /\ \E t \in TopBrandsOutcomes(make_series, top_n) : top_brands' = t
    /\ returned' = returned \cup {"rank"}
    /\ pc' = "done"
    /\ UNCHANGED <<entry, NHTSA_API_KEY, state, requests, params, response, crash_data,
                   make_series, top_n, raised, fileWritten, chartShown, diag>>

-----------------------------------------------------------------------------
(* Specifications *)

Next ==
    \/ FetchBegin
    \/ FetchRequest
    \/ FetchHandle
    \/ MainCheckData
    \/ MainExtract
    \/ MainRank
    \/ MainReport
    \/ MainPlot

Spec == Init /\ [][Next]_vars

NextFetch == FetchBegin \/ FetchRequest \/ FetchHandle

SpecFetch == InitFetch /\ [][NextFetch]_vars

NextExtract == ExtractCall

SpecExtract == InitExtract /\ [][NextExtract]_vars

NextTop == TopCall

SpecTop == InitTop /\ [][NextTop]_vars

-----------------------------------------------------------------------------
(* Claims about extract_vehicle_makes (SpecExtract) *)

ExtractReturned == entry = "extract" /\ pc = "done" /\ ~raised

\* C1: extract_vehicle_makes returns at most as many makes as there are input
\* records, and every returned make is non-empty after trimming: a record whose
\* vehicleMake is empty or whitespace-only is dropped, never stored as "".
C1_MakesNonEmpty ==
    ExtractReturned =>
        /\ Len(make_series) <= Len(crash_data.items)
        /\ \A i \in 1..Len(make_series) : Strip(make_series[i]) # <<>>

\* a record contributes when its field is present and non-empty after coercion
\* and trimming; a value that is itself empty (None, 0, False, [], "") counts
\* as an empty field
Contributes(rec) ==
    /\ rec.items # <<>>
    /\ Truthy(rec.items[1])
    /\ Strip(Str(rec.items[1])) # <<>>

RECURSIVE ExpectedMakes(_)
ExpectedMakes(recs) ==
    IF recs = <<>> THEN <<>>
    ELSE (IF Contributes(Head(recs)) THEN <<Strip(Str(Head(recs).items[1]))>> ELSE <<>>)
         \o ExpectedMakes(Tail(recs))

\* C9: the extractor's output is exactly the input-order subsequence of the
\* records whose vehicleMake is present and non-empty after string coercion
\* and trimming, each contributing its coerced, trimmed value.
C9_ExactSubsequence ==
    ExtractReturned => make_series = ExpectedMakes(crash_data.items)

-----------------------------------------------------------------------------
(* Claims about fetch_crash_data (SpecFetch) *)

FetchReturned == entry = "fetch" /\ pc = "fetched"

\* the body is an object whose Results is a non-empty list with a list first
WellShaped(body) ==
    /\ body.t = "obj"
    /\ body.items # <<>>
    /\ body.items[1].t = "list"
    /\ body.items[1].items # <<>>
    /\ body.items[1].items[1].t = "list"

\* an empty sequence or container
IsEmpty(j) == HasLen(j) /\ ~Truthy(j)

\* C2: with the key configured and a successful request, fetch_crash_data
\* returns the first element of Results when the body is an object whose
\* Results is a non-empty list with a list as first element, and an empty
\* sequence for every other body shape.
C2_ShapeChecked ==
    (FetchReturned /\ NHTSA_API_KEY # PLACEHOLDER_KEY /\ response.kind = "ok") =>
        IF WellShaped(response.body)
        THEN crash_data = response.body.items[1].items[1]
        ELSE IsEmpty(crash_data)

\* the code the table gives for an uppercased name, or the uppercased name
TableCode(u) ==
    IF \E i \in 1..Len(STATE_CODE_MAP) : STATE_CODE_MAP[i][1] = u
    THEN STATE_CODE_MAP[CHOOSE i \in 1..Len(STATE_CODE_MAP) : STATE_CODE_MAP[i][1] = u][2]
    ELSE u

\* C6: the region code sent is the table's code when the uppercased region is
\* a full name of the table, otherwise the uppercased region itself; when no
\* region is given, no region parameter is sent.
C6_RegionResolution ==
    (entry = "fetch" /\ pc \in {"request", "response", "fetched"}
        /\ NHTSA_API_KEY # PLACEHOLDER_KEY) =>
        /\ params.hasState = (state.given /\ state.s # <<>>)
        /\ params.hasState => params.state = TableCode(Upper(state.s))
        /\ (params.hasState /\ state.s = <<"m","i","c","h","i","g","a","n">>)
               => params.state = <<"M","I">>
        /\ (params.hasState /\ state.s = <<"C","a","l","i","f","o","r","n","i","a">>)
               => params.state = <<"C","A">>
        /\ (params.hasState /\ state.s = <<"o","h","i","o">>) => params.state = <<"O","H">>
        /\ (params.hasState /\ state.s = <<"Z","Z">>) => params.state = <<"Z","Z">>

C6_Witness ==
    /\ entry = "fetch" /\ pc = "fetched" /\ requests = 1
    /\ state = SomeState(<<"o","h","i","o">>)
    /\ params.state = <<"O","H">>

\* C7: a call of fetch_crash_data issues at most one request: none, returning
\* the empty sequence, while the key is the placeholder; otherwise exactly
\* one, returning the empty sequence on a network error or an error status.
C7_OneRequest ==
    /\ requests <= 1
    /\ (pc \in {"fetch", "request"}) => requests = 0
    /\ FetchReturned =>
        IF NHTSA_API_KEY = PLACEHOLDER_KEY
        THEN requests = 0 /\ crash_data = EmptyList /\ response = NoResponse
        ELSE /\ requests = 1
             /\ response.kind \in {"network_error", "http_error"} => crash_data = EmptyList

C7_Witness ==
    /\ FetchReturned /\ requests = 1
    /\ response.kind = "network_error" /\ crash_data = EmptyList

-----------------------------------------------------------------------------
(* Claims about main (Spec) *)

\* C3: no error crosses a component boundary as an exception: whatever the
\* request's outcome and the body, a run of main ends by normal return.
C3_NoExceptionEscapes == ~raised

\* a stage has returned an empty result
SomeStageEmpty ==
    \/ "fetch" \in returned /\ ~Truthy(crash_data)
    \/ "extract" \in returned /\ make_series = <<>>
    \/ "rank" \in returned /\ top_brands = <<>>

\* C8: the report file is written and the chart rendered only after the fetch,
\* the extractor and the aggregator each returned a non-empty result; when a
\* stage's result is empty the run ends with no file, no chart and no raise.
C8_ReportOnlyWithData ==
    /\ (fileWritten \/ chartShown) =>
          /\ returned = {"fetch", "extract", "rank"}
          /\ Truthy(crash_data)
          /\ make_series # <<>>
          /\ top_brands # <<>>
    /\ chartShown => fileWritten
    /\ SomeStageEmpty =>
          /\ ~fileWritten /\ ~chartShown /\ ~raised
          /\ pc \in {"fetched", "done"}
          /\ pc = "done" => diag \in {"no_data", "no_makes"}

C8_Witness ==
    pc = "done" /\ fileWritten /\ chartShown /\ Len(top_brands) >= 2

\* C10: in main, a non-empty make sequence always gives a non-empty ranking,
\* so the "No top brands" branch is never taken and every run that passes the
\* extraction check writes the report file.
C10_NoTopBranchUnreachable ==
    /\ diag # "no_top_brands"
    /\ ("rank" \in returned /\ make_series # <<>>) => top_brands # <<>>
    /\ (pc = "done" /\ "extract" \in returned /\ make_series # <<>>) => fileWritten

C10_Witness ==
    pc = "done" /\ "rank" \in returned /\ make_series # <<>> /\ fileWritten

-----------------------------------------------------------------------------
(* Claims about get_top_vehicle_brands (SpecTop) *)

TopReturned == entry = "top" /\ pc = "done"

Distinct == Cardinality(Range(make_series))

RECURSIVE SumCounts(_)
SumCounts(t) == IF t = <<>> THEN 0 ELSE Head(t).count + SumCounts(Tail(t))

\* what the ranking satisfies for every limit
RankingSound ==
    /\ \A i \in 1..Len(top_brands) :
          /\ top_brands[i].count >= 1
          /\ top_brands[i].count =
                Cardinality({k \in 1..Len(make_series) : make_series[k] = top_brands[i].make})
    /\ \A i, j \in 1..Len(top_brands) :
          /\ i # j => top_brands[i].make # top_brands[j].make
          /\ i < j => top_brands[i].count >= top_brands[j].count
    /\ SumCounts(top_brands) <= Len(make_series)
    /\ make_series = <<>> => top_brands = <<>>

\* C4 as stated: for every integer limit the ranking has exactly
\* min(limit, number of distinct makes) entries, counted by exact equality, in
\* non-increasing order of count, each count at least 1, summing to at most
\* the input length; an empty input gives an empty ranking.
C4_LengthIsMin ==
    TopReturned => (Len(top_brands) = Min(top_n, Distinct) /\ RankingSound)

\* C4 amended: the length is min(limit, distinct) for a limit >= 0, and
\* max(0, distinct + limit) for a negative limit; the rest as stated.
C4_LengthByLimitSign ==
    TopReturned =>
        /\ top_n >= 0 => Len(top_brands) = Min(top_n, Distinct)
        /\ top_n < 0 => Len(top_brands) = Max(0, Distinct + top_n)
        /\ RankingSound

C4_Witness ==
    /\ TopReturned /\ top_n = 2 /\ Distinct = 3 /\ Len(top_brands) = 2
    /\ top_brands[1].count = 2 /\ top_brands[2].count = 1

\* position of the first occurrence of m in the input
FirstSeen(m) == CHOOSE i \in 1..Len(make_series) :
                    make_series[i] = m /\ \A k \in 1..(i - 1) : make_series[k] # m

\* the makes of the input that are ranked before m by count, then first seen
RankedBefore(m) ==
    {x \in Range(make_series) :
        \/ CountOf(make_series, x) > CountOf(make_series, m)
        \/ CountOf(make_series, x) = CountOf(make_series, m) /\ FirstSeen(x) < FirstSeen(m)}

=============================================================================
